---- MODULE Spec2Model ----
(***************************************************************************)
(* Imbalance accounting of xrml/xassets/assets (src/types.rs, mod          *)
(* imbalances): PositiveImbalance / NegativeImbalance tokens, the          *)
(* operations of the Imbalance trait on them, and the Drop handlers that   *)
(* square up TotalAssetBalance.                                            *)
(*                                                                         *)
(* Every imbalance value the caller ever held is kept in `tokens`, with    *)
(* who took ownership of it (`by`) and how many times its Drop handler ran *)
(* (`applied`).  A function of the trait is an operator that returns the   *)
(* values it hands back (`ret`), and which of its by-value parameters it   *)
(* passed to mem::forget (`forgot`) or let go out of scope at its end      *)
(* (`dropped`, for which Drop::drop runs).                                 *)
(***************************************************************************)
EXTENDS Integers, Sequences, FiniteSets, TLC

\* Largest value of T::Balance (the type is generic; a small width is used).
MaxBalance == 2
\* Number of imbalance values constructed in one run.
MaxTokens == 3
\* The most imbalance values a trait function takes (self and other).
MaxOperands == 2

\* Module::<T>::TOKEN, the native asset symbol used by zero().
TOKEN == "PCX"
\* Asset symbols used as inputs (Token = Vec<u8>).
Symbols == {"PCX", "BTC"}

AssetType == {"Free", "ReservedStaking", "ReservedStakingRevocation",
              "ReservedWithdrawal", "ReservedDexSpot", "ReservedDexFuture",
              "ReservedCurrency"}
\* (symbol, bucket) tags used as inputs of new().
Tags == {<<"PCX", "Free">>, <<"PCX", "ReservedStaking">>, <<"BTC", "Free">>}
\* The tags used by the runs of Spec.
NewTags == {<<"PCX", "Free">>, <<"BTC", "ReservedStaking">>}

VARIABLES
    total,    \* TotalAssetBalance: symbol -> (AssetType -> Balance), a BTreeMap per symbol
    total0,   \* the store at the start of the run
    tokens,   \* every imbalance value constructed so far
    clamped,  \* a saturating_add / saturating_sub has clamped its result
    constructed, \* signed sum of the amounts given to new(): +amount Positive, -amount Negative
    last,     \* the last call and what it returned
    pc,       \* the computation holding the tokens: where it is, the path it
              \* left on, and the tokens that were live when it left
    asset,    \* the Asset the caller holds (NoAsset when it holds none)
    acall     \* the last call of Asset or of a validation function and its result

assetVars == <<asset, acall>>

vars == <<total, total0, tokens, clamped, constructed, last, pc, asset, acall>>

----------------------------------------------------------------------------
\* Balance arithmetic (primitives::traits::Saturating, Ord::min, Sub)

saturating_add(a, b) == IF a + b > MaxBalance THEN MaxBalance ELSE a + b

saturating_sub(a, b) == IF a < b THEN 0 ELSE a - b

min(a, b) == IF a <= b THEN a ELSE b

\* `a - b` on the unsigned Balance: wraps at the width of the type.
Sub(a, b) == (a - b) % (MaxBalance + 1)

----------------------------------------------------------------------------
\* The TotalAssetBalance store

EmptyMap == [b \in {} |-> 0]

EmptyStore == [s \in Symbols |-> EmptyMap]

\* map.entry(k).or_default() read: the value, 0 when absent
Entry(map, k) == IF k \in DOMAIN map THEN map[k] ELSE 0

\* *map.entry(k).or_default() = v
Put(map, k, v) == [b \in (DOMAIN map) \cup {k} |-> IF b = k THEN v ELSE map[b]]

----------------------------------------------------------------------------
\* Constructors

PositiveImbalance_new(amount, token, type_) ==
    [sign |-> "Positive", amount |-> amount, token |-> token, type_ |-> type_]

NegativeImbalance_new(amount, token, type_) ==
    [sign |-> "Negative", amount |-> amount, token |-> token, type_ |-> type_]

Positive_zero == PositiveImbalance_new(0, TOKEN, "Free")

Negative_zero == NegativeImbalance_new(0, TOKEN, "Free")

----------------------------------------------------------------------------
\* Drop handlers: the new store after drop(&mut self)

\* drop that stores a map holding the one bucket (the other buckets lost).
Positive_drop_freshMap(store, self) ==
    [store EXCEPT ![self.token] =
        Put(EmptyMap, self.type_, saturating_add(Entry(@, self.type_), self.amount))]

Positive_drop(store, self) ==
    [store EXCEPT ![self.token] =
        Put(@, self.type_, saturating_add(Entry(@, self.type_), self.amount))]

\* drop with a wrapping `-` for saturating_sub.
Negative_drop_wrapping(store, self) ==
    [store EXCEPT ![self.token] =
        Put(@, self.type_, Sub(Entry(@, self.type_), self.amount))]

Negative_drop(store, self) ==
    [store EXCEPT ![self.token] =
        Put(@, self.type_, saturating_sub(Entry(@, self.type_), self.amount))]

\* Drop::drop of whichever type the value has.
\* Drop with no handler for NegativeImbalance
Drop_positiveOnly(store, imb) ==
    IF imb.sign = "Positive" THEN Positive_drop(store, imb) ELSE store

Drop(store, imb) ==
    IF imb.sign = "Positive" THEN Positive_drop(store, imb) ELSE Negative_drop(store, imb)

----------------------------------------------------------------------------
\* impl Imbalance for PositiveImbalance.  Each result names the values handed
\* back (ret), whether self is moved into ret[1] (moved), and the by-value
\* parameters passed to mem::forget (forgot) or dropped at the end (dropped).

Positive_drop_zero(self) ==
    IF self.amount = 0
    THEN [ok |-> TRUE, ret |-> <<>>, moved |-> FALSE, forgot |-> {}, dropped |-> {"self"}]
    ELSE [ok |-> FALSE, ret |-> <<self>>, moved |-> TRUE, forgot |-> {}, dropped |-> {}]

\* split with `first` taken to be the argument (the min left out).
Positive_split_noMin(self, amount) ==
    LET first == amount
        second == Sub(self.amount, first)
    IN [ok |-> TRUE,
        ret |-> << PositiveImbalance_new(first, self.token, self.type_),
                   PositiveImbalance_new(second, self.token, self.type_) >>,
        moved |-> FALSE, forgot |-> {"self"}, dropped |-> {}]

\* split with `second` taken to be the whole amount (the subtraction left out).
Positive_split_noSub(self, amount) ==
    LET first == min(self.amount, amount)
        second == self.amount
    IN [ok |-> TRUE,
        ret |-> << PositiveImbalance_new(first, self.token, self.type_),
                   PositiveImbalance_new(second, self.token, self.type_) >>,
        moved |-> FALSE, forgot |-> {"self"}, dropped |-> {}]

Positive_split(self, amount) ==
    LET first == min(self.amount, amount)
        second == Sub(self.amount, first)
    IN [ok |-> TRUE,
        ret |-> << PositiveImbalance_new(first, self.token, self.type_),
                   PositiveImbalance_new(second, self.token, self.type_) >>,
        moved |-> FALSE, forgot |-> {"self"}, dropped |-> {}]

\* merge that forgets other without adding its amount.
Positive_merge_noAdd(self, other) ==
    [ok |-> TRUE, ret |-> << self >>, moved |-> TRUE, forgot |-> {"other"}, dropped |-> {}]

Positive_merge(self, other) ==
    [ok |-> TRUE,
     ret |-> << [self EXCEPT !.amount = saturating_add(self.amount, other.amount)] >>,
     moved |-> TRUE, forgot |-> {"other"}, dropped |-> {}]

\* subsume with a wrapping `+` for saturating_add.
Positive_subsume_wrapping(self, other) ==
    [ok |-> TRUE,
     ret |-> << [self EXCEPT !.amount = (self.amount + other.amount) % (MaxBalance + 1)] >>,
     moved |-> TRUE, forgot |-> {"other"}, dropped |-> {}]

Positive_subsume(self, other) ==
    [ok |-> TRUE,
     ret |-> << [self EXCEPT !.amount = saturating_add(self.amount, other.amount)] >>,
     moved |-> TRUE, forgot |-> {"other"}, dropped |-> {}]

\* offset with `a > b` for `a >= b`: equal amounts take the Err branch.
Positive_offset_strict(self, other) ==
    LET a == self.amount
        b == other.amount
    IN IF a > b
       THEN [ok |-> TRUE,
             ret |-> << PositiveImbalance_new(Sub(a, b), self.token, self.type_) >>,
             moved |-> FALSE, forgot |-> {"self", "other"}, dropped |-> {}]
       ELSE [ok |-> FALSE,
             ret |-> << NegativeImbalance_new(Sub(b, a), self.token, self.type_) >>,
             moved |-> FALSE, forgot |-> {"self", "other"}, dropped |-> {}]

\* offset whose Err branch clones other's tag.
Positive_offset_otherTag(self, other) ==
    LET a == self.amount
        b == other.amount
    IN IF a >= b
       THEN [ok |-> TRUE,
             ret |-> << PositiveImbalance_new(Sub(a, b), self.token, self.type_) >>,
             moved |-> FALSE, forgot |-> {"self", "other"}, dropped |-> {}]
       ELSE [ok |-> FALSE,
             ret |-> << NegativeImbalance_new(Sub(b, a), other.token, other.type_) >>,
             moved |-> FALSE, forgot |-> {"self", "other"}, dropped |-> {}]

\* offset whose Ok branch keeps self's amount (the subtraction left out).
Positive_offset_noSub(self, other) ==
    LET a == self.amount
        b == other.amount
    IN IF a >= b
       THEN [ok |-> TRUE,
             ret |-> << PositiveImbalance_new(a, self.token, self.type_) >>,
             moved |-> FALSE, forgot |-> {"self", "other"}, dropped |-> {}]
       ELSE [ok |-> FALSE,
             ret |-> << NegativeImbalance_new(Sub(b, a), self.token, self.type_) >>,
             moved |-> FALSE, forgot |-> {"self", "other"}, dropped |-> {}]

Positive_offset(self, other) ==
    LET a == self.amount
        b == other.amount
    IN IF a >= b
       THEN [ok |-> TRUE,
             ret |-> << PositiveImbalance_new(Sub(a, b), self.token, self.type_) >>,
             moved |-> FALSE, forgot |-> {"self", "other"}, dropped |-> {}]
       ELSE [ok |-> FALSE,
             ret |-> << NegativeImbalance_new(Sub(b, a), self.token, self.type_) >>,
             moved |-> FALSE, forgot |-> {"self", "other"}, dropped |-> {}]

Positive_peek(self) == self.amount

----------------------------------------------------------------------------
\* impl Imbalance for NegativeImbalance

\* drop_zero that returns Ok(()) whatever the amount.
Negative_drop_zero_alwaysOk(self) ==
    [ok |-> TRUE, ret |-> <<>>, moved |-> FALSE, forgot |-> {}, dropped |-> {"self"}]

Negative_drop_zero(self) ==
    IF self.amount = 0
    THEN [ok |-> TRUE, ret |-> <<>>, moved |-> FALSE, forgot |-> {}, dropped |-> {"self"}]
    ELSE [ok |-> FALSE, ret |-> <<self>>, moved |-> TRUE, forgot |-> {}, dropped |-> {}]

\* split with `first` taken to be the argument (the min left out).
Negative_split_noMin(self, amount) ==
    LET first == amount
        second == Sub(self.amount, first)
    IN [ok |-> TRUE,
        ret |-> << NegativeImbalance_new(first, self.token, self.type_),
                   NegativeImbalance_new(second, self.token, self.type_) >>,
        moved |-> FALSE, forgot |-> {"self"}, dropped |-> {}]

\* split without mem::forget(self): self is dropped when the function returns.
Negative_split_noForget(self, amount) ==
    LET first == min(self.amount, amount)
        second == Sub(self.amount, first)
    IN [ok |-> TRUE,
        ret |-> << NegativeImbalance_new(first, self.token, self.type_),
                   NegativeImbalance_new(second, self.token, self.type_) >>,
        moved |-> FALSE, forgot |-> {}, dropped |-> {"self"}]

Negative_split(self, amount) ==
    LET first == min(self.amount, amount)
        second == Sub(self.amount, first)
    IN [ok |-> TRUE,
        ret |-> << NegativeImbalance_new(first, self.token, self.type_),
                   NegativeImbalance_new(second, self.token, self.type_) >>,
        moved |-> FALSE, forgot |-> {"self"}, dropped |-> {}]

\* merge without mem::forget(other): other is dropped when the function returns.
Negative_merge_noForget(self, other) ==
    [ok |-> TRUE,
     ret |-> << [self EXCEPT !.amount = saturating_add(self.amount, other.amount)] >>,
     moved |-> TRUE, forgot |-> {}, dropped |-> {"other"}]

Negative_merge(self, other) ==
    [ok |-> TRUE,
     ret |-> << [self EXCEPT !.amount = saturating_add(self.amount, other.amount)] >>,
     moved |-> TRUE, forgot |-> {"other"}, dropped |-> {}]

Negative_subsume(self, other) ==
    [ok |-> TRUE,
     ret |-> << [self EXCEPT !.amount = saturating_add(self.amount, other.amount)] >>,
     moved |-> TRUE, forgot |-> {"other"}, dropped |-> {}]

\* offset with `a > b` for `a >= b`: equal amounts take the Err branch.
Negative_offset_strict(self, other) ==
    LET a == self.amount
        b == other.amount
    IN IF a > b
       THEN [ok |-> TRUE,
             ret |-> << NegativeImbalance_new(Sub(a, b), self.token, self.type_) >>,
             moved |-> FALSE, forgot |-> {"self", "other"}, dropped |-> {}]
       ELSE [ok |-> FALSE,
             ret |-> << PositiveImbalance_new(Sub(b, a), self.token, self.type_) >>,
             moved |-> FALSE, forgot |-> {"self", "other"}, dropped |-> {}]

Negative_offset(self, other) ==
    LET a == self.amount
        b == other.amount
    IN IF a >= b
       THEN [ok |-> TRUE,
             ret |-> << NegativeImbalance_new(Sub(a, b), self.token, self.type_) >>,
             moved |-> FALSE, forgot |-> {"self", "other"}, dropped |-> {}]
       ELSE [ok |-> FALSE,
             ret |-> << PositiveImbalance_new(Sub(b, a), self.token, self.type_) >>,
             moved |-> FALSE, forgot |-> {"self", "other"}, dropped |-> {}]

Negative_peek(self) == self.amount

----------------------------------------------------------------------------
\* Ownership bookkeeping

\* The signed value of an imbalance: Positive = +amount, Negative = -amount.
Signed(imb) == IF imb.sign = "Positive" THEN imb.amount ELSE 0 - imb.amount

\* A value the caller still owns.
Live(i) == i \in 1..Len(tokens) /\ tokens[i].by = "none"

LiveIds == {i \in 1..Len(tokens) : tokens[i].by = "none"}

Ids == 1..Len(tokens)

RECURSIVE SumSigned(_)
\* Sum of the signed values of tokens[i], i \in S.
SumSigned(S) ==
    IF S = {} THEN 0
    ELSE LET i == CHOOSE x \in S : TRUE
         IN Signed(tokens[i].imb) + SumSigned(S \ {i})

Entry0(imb, op) == [imb |-> imb, by |-> "none", applied |-> 0, made |-> op]

\* No imbalance (the value of `was` when the call has no self).
NoImbalance == [sign |-> "None", amount |-> 0, token |-> "", type_ |-> ""]

\* `last`: the function called, the ids of self and other, self as it was
\* before the call, the Balance argument, Ok/Err, the ids of the values
\* handed back, and the Balance peek returned.
NoCall == [op |-> "init", self |-> 0, other |-> 0, was |-> NoImbalance, arg |-> 0,
           ok |-> TRUE, out |-> <<>>, peek |-> 0]

\* The store after Drop::drop has run for the parameters in r.dropped (self first).
AfterDrops(store, r, self, other) ==
    LET s1 == IF "self" \in r.dropped THEN Drop(store, self) ELSE store
    IN IF "other" \in r.dropped THEN Drop(s1, other) ELSE s1

\* The history after a call op(i, j) with result r: the by-value parameters
\* that are not moved back out are gone (by = op), those dropped have had
\* their handler run, and the values constructed by the call are appended.
AfterCall(op, i, j, r) ==
    LET fresh == IF r.moved THEN Tail(r.ret) ELSE r.ret
        upd == [k \in 1..Len(tokens) |->
                  IF k = i
                  THEN IF r.moved
                       THEN [tokens[k] EXCEPT !.imb = r.ret[1]]
                       ELSE [tokens[k] EXCEPT !.by = op,
                                !.applied = @ + (IF "self" \in r.dropped THEN 1 ELSE 0)]
                  ELSE IF k = j
                  THEN [tokens[k] EXCEPT !.by = op,
                                !.applied = @ + (IF "other" \in r.dropped THEN 1 ELSE 0)]
                  ELSE tokens[k]]
    IN upd \o [k \in 1..Len(fresh) |-> Entry0(fresh[k], op)]

\* Ids of the values handed back by a call with result r on self = i.
OutIds(i, r) ==
    IF r.moved
    THEN <<i>> \o [k \in 1..(Len(r.ret) - 1) |-> Len(tokens) + k]
    ELSE [k \in 1..Len(r.ret) |-> Len(tokens) + k]

----------------------------------------------------------------------------
\* Validation of the byte strings of an Asset.  A byte string is a sequence
\* of bytes 0..255; a Result is "Ok" or the message of the Err.

MAX_TOKEN_LEN == 32
MAX_DESC_LEN == 128

\* the closure is_valid of is_valid_token
is_valid(c) ==
    \/ (c >= 48 /\ c <= 57)
    \/ (c >= 65 /\ c <= 90)
    \/ (c >= 97 /\ c <= 122)
    \/ (c = 45)
    \/ (c = 46)
    \/ (c = 124)
    \/ (c = 126)

\* is_valid_token with the charset examined before the length
is_valid_token_charsetFirst(v) ==
    IF \E k \in 1..Len(v) : ~is_valid(v[k])
    THEN "Token can only use numbers, capital/lowercase letters or '-', '.', '|', '~'."
    ELSE IF Len(v) > MAX_TOKEN_LEN \/ Len(v) = 0
         THEN "Token length is zero or too long."
         ELSE "Ok"

is_valid_token(v) ==
    IF Len(v) > MAX_TOKEN_LEN \/ Len(v) = 0
    THEN "Token length is zero or too long."
    ELSE IF \E k \in 1..Len(v) : ~is_valid(v[k])
         THEN "Token can only use numbers, capital/lowercase letters or '-', '.', '|', '~'."
         ELSE "Ok"

is_valid_token_name(v) ==
    IF Len(v) > MAX_TOKEN_LEN \/ Len(v) = 0
    THEN "Token name is zero or too long."
    ELSE IF \E k \in 1..Len(v) : (v[k] < 32 \/ v[k] > 126)
         THEN "Token name can not use an invisiable ASCII char."
         ELSE "Ok"

\* is_valid_desc with `>=` for `>`
is_valid_desc_strict(v) ==
    IF Len(v) >= MAX_DESC_LEN
    THEN "Token desc too long"
    ELSE IF \E k \in 1..Len(v) : (v[k] < 32 \/ v[k] > 126)
         THEN "Desc can not use an invisiable ASCII char."
         ELSE "Ok"

is_valid_desc(v) ==
    IF Len(v) > MAX_DESC_LEN
    THEN "Token desc too long"
    ELSE IF \E k \in 1..Len(v) : (v[k] < 32 \/ v[k] > 126)
         THEN "Desc can not use an invisiable ASCII char."
         ELSE "Ok"

----------------------------------------------------------------------------
\* struct Asset

Chain == {"ChainX", "Bitcoin", "Ethereum"}

NoAsset == [token |-> <<>>, token_name |-> <<>>, chain |-> "None", precision |-> 0,
            desc |-> <<>>]

\* Asset::is_valid with desc validated first
Asset_is_valid_descFirst(self) ==
    IF is_valid_desc(self.desc) # "Ok" THEN is_valid_desc(self.desc)
    ELSE IF is_valid_token(self.token) # "Ok" THEN is_valid_token(self.token)
         ELSE is_valid_token_name(self.token_name)

\* Asset::is_valid: the `?` returns the first Err
Asset_is_valid(self) ==
    IF is_valid_token(self.token) # "Ok" THEN is_valid_token(self.token)
    ELSE IF is_valid_token_name(self.token_name) # "Ok"
         THEN is_valid_token_name(self.token_name)
         ELSE is_valid_desc(self.desc)

\* Asset::new: Ok(a) or the Err of a.is_valid()
Asset_new(token, token_name, chain, precision, desc) ==
    LET a == [token |-> token, token_name |-> token_name, chain |-> chain,
              precision |-> precision, desc |-> desc]
    IN IF Asset_is_valid(a) # "Ok"
       THEN [res |-> Asset_is_valid(a), asset |-> NoAsset]
       ELSE [res |-> "Ok", asset |-> a]

Asset_token(self) == self.token

Asset_token_name(self) == self.token_name

Asset_chain(self) == self.chain

Asset_desc(self) == self.desc

Asset_precision(self) == self.precision

Asset_set_desc(self, desc) == [self EXCEPT !.desc = desc]

\* `acall`: the function called, its arguments and its Result.
NoAssetCall == [op |-> "init", token |-> <<>>, token_name |-> <<>>, chain |-> "None",
                precision |-> 0, desc |-> <<>>, v |-> <<>>, res |-> "Ok"]

----------------------------------------------------------------------------
\* The computation that holds the tokens as local values.

Running == [at |-> "running", path |-> "none", live |-> {}]

\* Ways out of the computation: the end of its body, a `return` before it,
\* and `?` on an Err.
Paths == {"return", "early_return", "error"}

----------------------------------------------------------------------------
\* The state machine

\* The store a run of Spec starts from: the Free total of the native asset is
\* one below the largest balance, nothing else is stored yet.
StartStore == [EmptyStore EXCEPT ![TOKEN] = Put(EmptyMap, "Free", MaxBalance - 1)]

Init ==
    /\ total = StartStore
    /\ total0 = total
    /\ tokens = <<>>
    /\ clamped = FALSE
    /\ constructed = 0
    /\ last = NoCall
    /\ pc = Running
    /\ asset = NoAsset
    /\ acall = NoAssetCall

\* PositiveImbalance::new / NegativeImbalance::new
New(sign, amount, tag) ==
    /\ Len(tokens) < MaxTokens
    /\ tokens' = Append(tokens,
          Entry0(IF sign = "Positive"
                 THEN PositiveImbalance_new(amount, tag[1], tag[2])
                 ELSE NegativeImbalance_new(amount, tag[1], tag[2]), "new"))
    /\ constructed' = constructed + (IF sign = "Positive" THEN amount ELSE 0 - amount)
    /\ last' = [NoCall EXCEPT !.op = "new", !.arg = amount, !.out = <<Len(tokens) + 1>>]
    /\ UNCHANGED <<total, total0, clamped, pc, assetVars>>

\* Imbalance::zero
Zero(sign) ==
    /\ Len(tokens) < MaxTokens
    /\ tokens' = Append(tokens,
          Entry0(IF sign = "Positive" THEN Positive_zero ELSE Negative_zero, "zero"))
    /\ last' = [NoCall EXCEPT !.op = "zero", !.out = <<Len(tokens) + 1>>]
    /\ UNCHANGED <<total, total0, clamped, constructed, pc, assetVars>>

\* A call of a trait function on self = i (and other = j, 0 when it has none).
Call(op, i, j, arg, r) ==
    LET self == tokens[i].imb
        other == IF j = 0 THEN self ELSE tokens[j].imb
    IN /\ tokens' = AfterCall(op, i, j, r)
       /\ total' = AfterDrops(total, r, self, other)
       /\ last' = [op |-> op, self |-> i, other |-> j, was |-> self, arg |-> arg,
                   ok |-> r.ok, out |-> OutIds(i, r), peek |-> 0]
       /\ UNCHANGED <<total0, constructed, pc, assetVars>>

DropZero(i) ==
    /\ Live(i)
    /\ LET self == tokens[i].imb
       IN Call("drop_zero", i, 0, 0,
               IF self.sign = "Positive" THEN Positive_drop_zero(self)
                                         ELSE Negative_drop_zero(self))
    /\ UNCHANGED clamped

\* split, in a run that constructs at most cap values (it constructs two).
Split(i, amount, cap) ==
    /\ Live(i)
    /\ Len(tokens) + 2 <= cap
    /\ LET self == tokens[i].imb
       IN Call("split", i, 0, amount,
               IF self.sign = "Positive" THEN Positive_split(self, amount)
                                         ELSE Negative_split(self, amount))
    /\ UNCHANGED clamped

Merge(i, j) ==
    /\ Live(i) /\ Live(j) /\ i # j
    /\ tokens[i].imb.sign = tokens[j].imb.sign
    /\ LET self == tokens[i].imb
           other == tokens[j].imb
       IN /\ Call("merge", i, j, 0,
                  IF self.sign = "Positive" THEN Positive_merge(self, other)
                                            ELSE Negative_merge(self, other))
          /\ clamped' = (clamped \/ self.amount + other.amount > MaxBalance)

Subsume(i, j) ==
    /\ Live(i) /\ Live(j) /\ i # j
    /\ tokens[i].imb.sign = tokens[j].imb.sign
    /\ LET self == tokens[i].imb
           other == tokens[j].imb
       IN /\ Call("subsume", i, j, 0,
                  IF self.sign = "Positive" THEN Positive_subsume(self, other)
                                            ELSE Negative_subsume(self, other))
          /\ clamped' = (clamped \/ self.amount + other.amount > MaxBalance)

\* offset, in a run that constructs at most cap values (it constructs one).
Offset(i, j, cap) ==
    /\ Live(i) /\ Live(j) /\ i # j
    /\ Len(tokens) + 1 <= cap
    /\ tokens[i].imb.sign # tokens[j].imb.sign
    /\ LET self == tokens[i].imb
           other == tokens[j].imb
       IN Call("offset", i, j, 0,
               IF self.sign = "Positive" THEN Positive_offset(self, other)
                                         ELSE Negative_offset(self, other))
    /\ UNCHANGED clamped

Peek(i) ==
    /\ Live(i)
    /\ last' = [NoCall EXCEPT !.op = "peek", !.self = i, !.was = tokens[i].imb,
                   !.peek = IF tokens[i].imb.sign = "Positive"
                            THEN Positive_peek(tokens[i].imb)
                            ELSE Negative_peek(tokens[i].imb)]
    /\ UNCHANGED <<total, total0, tokens, clamped, constructed, pc, assetVars>>

\* The caller lets a value it owns go out of scope: Drop::drop runs.
ScopeExit(i) ==
    /\ Live(i)
    /\ LET self == tokens[i].imb
           old == Entry(total[self.token], self.type_)
       IN /\ total' = Drop(total, self)
          /\ clamped' = (clamped \/ IF self.sign = "Positive"
                                     THEN old + self.amount > MaxBalance
                                     ELSE old < self.amount)
    /\ tokens' = [tokens EXCEPT ![i].by = "scope", ![i].applied = @ + 1]
    /\ last' = [NoCall EXCEPT !.op = "drop", !.self = i, !.was = tokens[i].imb]
    /\ UNCHANGED <<total0, constructed, pc, assetVars>>

Next ==
    \/ \E sign \in {"Positive", "Negative"}, amount \in 0..MaxBalance, tag \in NewTags :
          New(sign, amount, tag)
    \/ \E sign \in {"Positive", "Negative"} : Zero(sign)
    \/ \E i \in 1..MaxTokens : DropZero(i)
    \/ \E i \in 1..MaxTokens, amount \in 0..MaxBalance : Split(i, amount, MaxTokens)
    \/ \E i, j \in 1..MaxTokens : Merge(i, j)
    \/ \E i, j \in 1..MaxTokens : Subsume(i, j)
    \/ \E i, j \in 1..MaxTokens : Offset(i, j, MaxTokens)
    \/ \E i \in 1..MaxTokens : Peek(i)
    \/ \E i \in 1..MaxTokens : ScopeExit(i)

Spec == Init /\ [][Next]_vars

----------------------------------------------------------------------------
\* Single calls: the caller holds one or two values made by new(), with any
\* sign, amount and tag, over a store with any totals, and calls the trait
\* functions on them.

Imbalances ==
    {PositiveImbalance_new(a, t[1], t[2]) : a \in 0..MaxBalance, t \in Tags}
       \cup {NegativeImbalance_new(a, t[1], t[2]) : a \in 0..MaxBalance, t \in Tags}

\* Nothing stored, or one total per tag of Tags.
CallStores ==
    {EmptyStore} \cup
    {[s \in Symbols |->
        IF s = "PCX" THEN [b \in {"Free", "ReservedStaking"} |-> IF b = "Free" THEN t ELSE u]
                     ELSE [b \in {"Free"} |-> u]] : t, u \in 0..MaxBalance}

InitCall ==
    /\ total \in CallStores
    /\ total0 = total
    /\ \E n \in 1..MaxOperands : \E held \in [1..n -> Imbalances] :
          /\ tokens = [k \in 1..n |-> Entry0(held[k], "new")]
          /\ constructed = SumSigned(1..n)
    /\ clamped = FALSE
    /\ last = NoCall
    /\ pc = Running
    /\ asset = NoAsset
    /\ acall = NoAssetCall

\* Room for the operands of one call and one more value.
CallTokens == MaxOperands + 1

NextCall ==
    \/ \E i \in 1..CallTokens : DropZero(i)
    \/ \E i \in 1..CallTokens, amount \in 0..MaxBalance : Split(i, amount, CallTokens)
    \/ \E i, j \in 1..CallTokens : Merge(i, j)
    \/ \E i, j \in 1..CallTokens : Subsume(i, j)
    \/ \E i, j \in 1..CallTokens : Offset(i, j, CallTokens)
    \/ \E i \in 1..CallTokens : Peek(i)
    \/ \E i \in 1..CallTokens : ScopeExit(i)

SpecCall == InitCall /\ [][NextCall]_vars

----------------------------------------------------------------------------
\* A computation that holds tokens, calls the operations and leaves on one
\* of Paths.  Leaving drops the values still held, the one declared last
\* first, and then control is back with the caller.

callVars == <<total, total0, tokens, clamped, constructed, last>>

Max(S) == CHOOSE x \in S : \A y \in S : y <= x

\* `?` leaves only on an Err.
Exit(path) ==
    /\ pc.at = "running"
    /\ path = "error" => ~last.ok
    /\ pc' = [at |-> "unwinding", path |-> path, live |-> LiveIds]
    /\ UNCHANGED <<callVars, assetVars>>

Unwind ==
    /\ pc.at = "unwinding"
    /\ LiveIds # {}
    /\ ScopeExit(Max(LiveIds))

Returned ==
    /\ pc.at = "unwinding"
    /\ LiveIds = {}
    /\ pc' = [pc EXCEPT !.at = "returned"]
    /\ UNCHANGED <<callVars, assetVars>>

NextExit ==
    \/ (pc.at = "running" /\ NextCall)
    \/ \E path \in Paths : Exit(path)
    \/ Unwind
    \/ Returned

SpecExit == InitCall /\ [][NextExit]_vars

\* Nothing interrupts the drops of a computation that is leaving.
SpecExitFair == SpecExit /\ WF_vars(Unwind) /\ WF_vars(Returned)

----------------------------------------------------------------------------
\* Assets: the caller constructs an Asset, changes its description, and
\* calls the validation functions on byte strings.

\* n bytes `fill`, with the byte `odd` at position pos (pos = 0: nowhere).
Str(n, fill, pos, odd) == [k \in 1..n |-> IF k = pos THEN odd ELSE fill]

\* The bytes on either side of every bound the validation functions compare
\* with, and the two ends of the byte range.
Bytes == {0, 31, 32, 44, 45, 46, 47, 48, 57, 58, 64, 65, 90, 91, 96, 97, 122, 123, 124,
          125, 126, 127, 128, 255}

\* Lengths around the limits of a token and of a description.
TokenLens == {0, 1, 2, MAX_TOKEN_LEN, MAX_TOKEN_LEN + 1}
DescLens == {0, 1, MAX_DESC_LEN, MAX_DESC_LEN + 1}

\* Byte strings given to the validation functions: each of Bytes at the
\* first and at the last position of a string of 'A' or ' '.
Strings(lens) ==
    UNION {{Str(n, fill, pos, odd) : fill \in {65, 32}, pos \in {1, n}, odd \in Bytes} :
           n \in lens}

\* Byte strings given to Asset::new and set_desc.
TokenInputs == {<<>>, <<66, 84, 67>>, <<66, 32, 67>>,
                Str(MAX_TOKEN_LEN, 65, 0, 0), Str(MAX_TOKEN_LEN + 1, 65, 0, 0)}
NameInputs == {<<>>, <<66, 32, 99>>, <<126>>, <<80, 31>>, <<127>>,
               Str(MAX_TOKEN_LEN + 1, 32, 0, 0)}
DescInputs == {<<>>, <<32>>, <<66, 84, 67>>, <<1>>, <<65, 127>>,
               Str(MAX_DESC_LEN, 126, 0, 0), Str(MAX_DESC_LEN + 1, 32, 0, 0)}
PrecisionInputs == {0, 8}

InitAsset ==
    /\ total = EmptyStore
    /\ total0 = total
    /\ tokens = <<>>
    /\ clamped = FALSE
    /\ constructed = 0
    /\ last = NoCall
    /\ pc = Running
    /\ asset = NoAsset
    /\ acall = NoAssetCall

imbVars == <<total, total0, tokens, clamped, constructed, last, pc>>

AssetNew(token, token_name, chain, precision, desc) ==
    LET r == Asset_new(token, token_name, chain, precision, desc)
    IN /\ asset' = r.asset
       /\ acall' = [NoAssetCall EXCEPT !.op = "new", !.token = token,
                       !.token_name = token_name, !.chain = chain,
                       !.precision = precision, !.desc = desc, !.res = r.res]
       /\ UNCHANGED imbVars

SetDesc(desc) ==
    /\ asset # NoAsset
    /\ asset' = Asset_set_desc(asset, desc)
    /\ acall' = [NoAssetCall EXCEPT !.op = "set_desc", !.desc = desc]
    /\ UNCHANGED imbVars

\* The accessors of the Asset held.
Accessors ==
    /\ asset # NoAsset
    /\ acall' = [NoAssetCall EXCEPT !.op = "get", !.token = Asset_token(asset),
                       !.token_name = Asset_token_name(asset), !.chain = Asset_chain(asset),
                       !.precision = Asset_precision(asset), !.desc = Asset_desc(asset)]
    /\ UNCHANGED <<asset, imbVars>>

NextAsset ==
    \/ \E token \in TokenInputs, token_name \in NameInputs, chain \in Chain,
          precision \in PrecisionInputs, desc \in DescInputs :
          AssetNew(token, token_name, chain, precision, desc)
    \/ \E desc \in DescInputs : SetDesc(desc)
    \/ Accessors

SpecAsset == InitAsset /\ [][NextAsset]_vars

----------------------------------------------------------------------------
\* The validation functions alone: the caller holds a byte string `acall.v`
\* and calls one of the three functions on it.

InitValid ==
    /\ total = EmptyStore
    /\ total0 = total
    /\ tokens = <<>>
    /\ clamped = FALSE
    /\ constructed = 0
    /\ last = NoCall
    /\ pc = Running
    /\ asset = NoAsset
    /\ \E v \in Strings(TokenLens \cup DescLens) : acall = [NoAssetCall EXCEPT !.v = v]

IsValidToken ==
    /\ acall' = [acall EXCEPT !.op = "is_valid_token", !.res = is_valid_token(acall.v)]
    /\ UNCHANGED <<asset, imbVars>>

IsValidTokenName ==
    /\ acall' = [acall EXCEPT !.op = "is_valid_token_name",
                              !.res = is_valid_token_name(acall.v)]
    /\ UNCHANGED <<asset, imbVars>>

IsValidDesc ==
    /\ acall' = [acall EXCEPT !.op = "is_valid_desc", !.res = is_valid_desc(acall.v)]
    /\ UNCHANGED <<asset, imbVars>>

NextValid ==
    \/ IsValidToken
    \/ IsValidTokenName
    \/ IsValidDesc

SpecValid == InitValid /\ [][NextValid]_vars

----------------------------------------------------------------------------
\* Sums used by the properties

Cells(store) == {c \in Symbols \X AssetType : c[2] \in DOMAIN store[c[1]]}

RECURSIVE SumCells(_, _)
SumCells(store, C) ==
    IF C = {} THEN 0
    ELSE LET c == CHOOSE x \in C : TRUE
         IN store[c[1]][c[2]] + SumCells(store, C \ {c})

\* Sum of all totals of a store.
StoreSum(store) == SumCells(store, Cells(store))

\* Net change of the store since the start of the run.
NetApplied == StoreSum(total) - StoreSum(total0)

Structural == {"split", "merge", "subsume", "offset"}

TagOf(imb) == <<imb.token, imb.type_>>

TotalAt(store, tag) == Entry(store[tag[1]], tag[2])

----------------------------------------------------------------------------
\* C1 as stated: at every step the signed values of the live tokens plus the
\* net change applied to TotalAssetBalance equal the signed value V given to
\* new(); the bookkeeping operations never create or destroy value.
C1_ConservationAlways ==
    SumSigned(LiveIds) + NetApplied = constructed

\* C1 amended: as long as no saturating addition (merge, subsume, Positive
\* finalization) and no saturating subtraction (Negative finalization) has
\* clamped its result, the signed values of the live tokens plus the net
\* change applied to TotalAssetBalance equal the signed value given to new().
C1_ConservationUnlessClamped ==
    ~clamped => SumSigned(LiveIds) + NetApplied = constructed

\* A run with a structural operation and a finalization of a non-zero
\* amount, nothing clamped, and a value still live.
C1_Witness ==
    /\ ~clamped
    /\ constructed # 0
    /\ \E i \in Ids : tokens[i].by \in Structural
    /\ \E i \in Ids : tokens[i].applied = 1 /\ tokens[i].imb.amount > 0
    /\ LiveIds # {}

----------------------------------------------------------------------------
AllResolved == tokens # <<>> /\ LiveIds = {}

OnlyTag(tag) == \A i \in Ids : TagOf(tokens[i].imb) = tag

\* C2 as stated: once every token of a run whose tokens all carry one tag is
\* finalized, the total of that tag is the starting total T plus the net
\* signed value of the tokens constructed, whatever the order of the calls.
C2_FinalTotalAlways ==
    \A tag \in NewTags :
        (AllResolved /\ OnlyTag(tag)) =>
            TotalAt(total, tag) = TotalAt(total0, tag) + constructed

\* C2 amended: the same, for the runs in which no saturating addition or
\* subtraction has clamped its result.
C2_FinalTotalUnlessClamped ==
    \A tag \in NewTags :
        (AllResolved /\ OnlyTag(tag) /\ ~clamped) =>
            TotalAt(total, tag) = TotalAt(total0, tag) + constructed

\* A finished run on the native Free total (T > 0) that constructed a net
\* non-zero value and combined tokens before finalizing.
C2_Witness ==
    /\ AllResolved /\ OnlyTag(<<TOKEN, "Free">>) /\ ~clamped
    /\ TotalAt(total0, <<TOKEN, "Free">>) > 0
    /\ constructed # 0
    /\ \E i \in Ids : tokens[i].by \in {"merge", "subsume", "offset"}
    /\ \E i \in Ids : tokens[i].applied = 1 /\ tokens[i].imb.amount > 0

----------------------------------------------------------------------------
\* C3: every token is resolved exactly once: a token consumed by split,
\* merge, subsume or offset never has its Drop handler run, a token that
\* went out of scope has had it run exactly once, a token still held has not
\* had it run, and (nothing clamped) the store has changed by exactly the
\* signed values of the tokens whose handler ran.
C3_ResolvedOnce ==
    /\ \A i \in Ids :
          /\ tokens[i].applied \in {0, 1}
          /\ tokens[i].by \in Structural => tokens[i].applied = 0
          /\ tokens[i].by \in {"scope", "drop_zero"} => tokens[i].applied = 1
          /\ tokens[i].by = "none" => tokens[i].applied = 0
    /\ ~clamped => NetApplied = SumSigned({i \in Ids : tokens[i].applied = 1})

\* One token consumed by a structural operation and another finalized.
C3_Witness ==
    /\ \E i \in Ids : tokens[i].by \in Structural /\ tokens[i].imb.amount > 0
    /\ \E i \in Ids : tokens[i].by = "scope" /\ tokens[i].imb.amount > 0
    /\ ~clamped

----------------------------------------------------------------------------
\* C4: new, zero, peek, split, merge, subsume, offset, and drop_zero on a
\* non-zero token leave TotalAssetBalance unchanged.
C4_OnlyDropMutates ==
    [][(\/ last'.op \in {"new", "zero", "peek", "split", "merge", "subsume", "offset"}
        \/ (last'.op = "drop_zero" /\ tokens[last'.self].imb.amount # 0))
       => total' = total]_vars

\* A merge of two non-zero tokens has just returned.
C4_Witness ==
    /\ last.op = "merge"
    /\ tokens[last.self].imb.amount > 0
    /\ tokens[last.other].imb.amount > 0

----------------------------------------------------------------------------
\* C5: offset of amounts a (self) and b (other) returns Ok with a token of
\* self's sign and amount a - b when a >= b, and Err with a token of other's
\* sign and amount b - a when a < b; both inputs are consumed without their
\* Drop handler running, the one output is the only value handed back, and
\* its signed value is the sum of the signed values of the inputs.
C5_Offset ==
    last.op = "offset" =>
        LET s == tokens[last.self]
            o == tokens[last.other]
            a == s.imb.amount
            b == o.imb.amount
        IN /\ Len(last.out) = 1
           /\ LET r == tokens[last.out[1]]
              IN /\ a >= b => (last.ok /\ r.imb.sign = s.imb.sign /\ r.imb.amount = a - b)
                 /\ a < b => (~last.ok /\ r.imb.sign = o.imb.sign /\ r.imb.amount = b - a)
                 /\ Signed(r.imb) = Signed(s.imb) + Signed(o.imb)
                 /\ r.by = "none" /\ r.applied = 0
           /\ s.by = "offset" /\ s.applied = 0
           /\ o.by = "offset" /\ o.applied = 0
           /\ s.imb = last.was
           /\ LiveIds \cap {last.self, last.other} = {}

\* An offset that returned Err with a non-zero remainder.
C5_Witness ==
    /\ last.op = "offset" /\ ~last.ok
    /\ tokens[last.out[1]].imb.amount > 0
    /\ tokens[last.self].imb.amount > 0

----------------------------------------------------------------------------
\* C6: split(k) of a token of amount a returns two tokens of the same sign
\* and tag with amounts min(a, k) and a - min(a, k), which sum to a, for
\* every k; the input is consumed without its Drop handler running.
C6_Split ==
    last.op = "split" =>
        LET s == tokens[last.self]
            a == s.imb.amount
            k == last.arg
            m == IF a <= k THEN a ELSE k
        IN /\ Len(last.out) = 2
           /\ tokens[last.out[1]].imb = [s.imb EXCEPT !.amount = m]
           /\ tokens[last.out[2]].imb = [s.imb EXCEPT !.amount = a - m]
           /\ tokens[last.out[1]].imb.amount + tokens[last.out[2]].imb.amount = a
           /\ tokens[last.out[1]].by = "none" /\ tokens[last.out[2]].by = "none"
           /\ s.by = "split" /\ s.applied = 0
           /\ s.imb = last.was

\* A split by more than the amount of a non-zero token.
C6_Witness ==
    /\ last.op = "split"
    /\ tokens[last.self].imb.amount > 0
    /\ last.arg > tokens[last.self].imb.amount

----------------------------------------------------------------------------
SatSum(x, y) == IF x + y > MaxBalance THEN MaxBalance ELSE x + y

\* What C7 says of the value merge and subsume leave in self: self's sign and
\* tag, the saturating sum of the amounts, other consumed and not finalized.
C7_Merged ==
    last.op \in {"merge", "subsume"} =>
        LET r == tokens[last.self]
            o == tokens[last.other]
        IN /\ r.imb = [last.was EXCEPT !.amount = SatSum(last.was.amount, o.imb.amount)]
           /\ r.imb.sign = o.imb.sign
           /\ r.by = "none" /\ r.applied = 0
           /\ o.by = last.op /\ o.applied = 0
           /\ last.out = <<last.self>>
           /\ Positive_subsume(last.was, o.imb).ret = Positive_merge(last.was, o.imb).ret
           /\ Negative_subsume(last.was, o.imb).ret = Negative_merge(last.was, o.imb).ret

\* The step that finalizes the Positive token the last merge returned.
C7_MergedDropStep ==
    /\ last.op = "merge" /\ last.was.sign = "Positive"
    /\ last'.op = "drop" /\ last'.self = last.self

\* C7 as stated: merge returns x + y (saturating) with self's tag, subsume
\* leaves the same in self, and finalizing the merged Positive token
\* increases the tagged total by exactly x + y.
C7_MergeExactIncrease ==
    [][/\ C7_Merged'
       /\ C7_MergedDropStep =>
            TotalAt(total', TagOf(last.was)) =
               TotalAt(total, TagOf(last.was))
                  + last.was.amount + tokens[last.other].imb.amount]_vars

\* C7 amended: merge returns x + y saturating at the balance maximum with
\* self's tag, other consumed and not finalized, subsume leaves the same in
\* self, and finalizing the merged Positive token sets the tagged total to
\* min(old + min(x + y, MAX), MAX): an increase of exactly x + y whenever
\* old + x + y does not exceed the balance maximum.
C7_MergeSaturatingIncrease ==
    [][/\ C7_Merged'
       /\ C7_MergedDropStep =>
            LET x == last.was.amount
                y == tokens[last.other].imb.amount
                old == TotalAt(total, TagOf(last.was))
            IN /\ TotalAt(total', TagOf(last.was)) = SatSum(old, SatSum(x, y))
               /\ old + x + y <= MaxBalance =>
                     TotalAt(total', TagOf(last.was)) = old + x + y]_vars

\* Two non-zero Positive tokens were merged and the result finalized, the
\* total rising by exactly the sum of their amounts.
C7_Witness ==
    \E i, j \in Ids :
        /\ tokens[j].by = "merge" /\ tokens[j].imb.amount > 0
        /\ tokens[i].by = "scope" /\ tokens[i].imb.sign = "Positive"
        /\ tokens[i].imb.amount > tokens[j].imb.amount
        /\ last.op = "drop" /\ last.self = i
        /\ TotalAt(total, TagOf(tokens[i].imb))
              = TotalAt(total0, TagOf(tokens[i].imb)) + tokens[i].imb.amount

----------------------------------------------------------------------------
\* C8: dropping a NegativeImbalance of amount n tagged (X, B) sets
\* TotalAssetBalance[X][B] to max(old - n, 0), an absent entry counting as 0;
\* the total never becomes negative.
C8_NegativeDrop ==
    [][(last'.op = "drop" /\ last'.was.sign = "Negative") =>
         LET tag == TagOf(last'.was)
             n == last'.was.amount
             old == TotalAt(total, tag)
         IN /\ tag[2] \in DOMAIN total'[tag[1]]
            /\ total'[tag[1]][tag[2]] = (IF old >= n THEN old - n ELSE 0)
            /\ total'[tag[1]][tag[2]] >= 0]_vars

\* A Negative token larger than the non-zero total of its tag was dropped.
C8_Witness ==
    /\ last.op = "drop" /\ last.was.sign = "Negative"
    /\ clamped
    /\ TotalAt(total0, TagOf(last.was)) > 0
    /\ TotalAt(total, TagOf(last.was)) = 0

----------------------------------------------------------------------------
\* C9: dropping a PositiveImbalance of amount p tagged (X, B) sets
\* TotalAssetBalance[X][B] to min(old + p, MAX); a drop of either sign changes
\* no other bucket of X and no other asset symbol.
C9_DropFrame ==
    [][last'.op = "drop" =>
         LET tag == TagOf(last'.was)
             p == last'.was.amount
             old == TotalAt(total, tag)
         IN /\ last'.was.sign = "Positive" =>
                  /\ tag[2] \in DOMAIN total'[tag[1]]
                  /\ total'[tag[1]][tag[2]] = (IF old + p > MaxBalance THEN MaxBalance ELSE old + p)
            /\ \A s \in Symbols \ {tag[1]} : total'[s] = total[s]
            /\ DOMAIN total'[tag[1]] = DOMAIN total[tag[1]] \cup {tag[2]}
            /\ \A b \in DOMAIN total[tag[1]] \ {tag[2]} :
                  total'[tag[1]][b] = total[tag[1]][b]]_vars

\* A non-zero Positive token was dropped while another bucket of its asset
\* and another asset held non-zero totals.
C9_Witness ==
    /\ last.op = "drop" /\ last.was.sign = "Positive" /\ last.was.amount > 0
    /\ \E b \in DOMAIN total[last.was.token] \ {last.was.type_} :
          total[last.was.token][b] > 0
    /\ \E s \in Symbols \ {last.was.token} : \E b \in DOMAIN total[s] : total[s][b] > 0

----------------------------------------------------------------------------
\* C10: drop_zero returns Ok(()) and consumes the token exactly when its
\* amount is zero; otherwise it returns Err with the same token, still live
\* and not finalized, and TotalAssetBalance unchanged.
C10_DropZero ==
    [][last'.op = "drop_zero" =>
         LET i == last'.self
         IN /\ last'.ok <=> tokens[i].imb.amount = 0
            /\ last'.ok => (tokens'[i].by = "drop_zero" /\ last'.out = <<>>)
            /\ ~last'.ok =>
                  /\ last'.out = <<i>>
                  /\ tokens' = tokens
                  /\ tokens'[i].by = "none" /\ tokens'[i].applied = 0
                  /\ total' = total]_vars

\* drop_zero has just returned Err with a non-zero token, which is still live.
C10_Witness ==
    /\ last.op = "drop_zero" /\ ~last.ok
    /\ Live(last.self)
    /\ tokens[last.self].imb.amount > 0

----------------------------------------------------------------------------
\* The rules of the three byte strings, stated on their own.

TokenChar(c) == c \in (48..57) \cup (65..90) \cup (97..122) \cup {45, 46, 124, 126}

Printable(c) == c \in 32..126

ValidToken(v) == Len(v) \in 1..32 /\ \A k \in 1..Len(v) : TokenChar(v[k])

ValidTokenName(v) == Len(v) \in 1..32 /\ \A k \in 1..Len(v) : Printable(v[k])

ValidDesc(v) == Len(v) \in 0..128 /\ \A k \in 1..Len(v) : Printable(v[k])

TokenErrs == {"Token length is zero or too long.",
              "Token can only use numbers, capital/lowercase letters or '-', '.', '|', '~'."}

TokenNameErrs == {"Token name is zero or too long.",
                  "Token name can not use an invisiable ASCII char."}

DescErrs == {"Token desc too long", "Desc can not use an invisiable ASCII char."}

----------------------------------------------------------------------------
\* C11: every Asset reachable by Asset::new followed by any sequence of
\* set_desc calls satisfies the Asset invariant: its token passes the
\* token-symbol check, its token_name the printable-ASCII name check and its
\* desc the printable-ASCII description check (length <= 128).
C11_AssetInvariant ==
    asset # NoAsset =>
        /\ ValidToken(asset.token)
        /\ ValidTokenName(asset.token_name)
        /\ ValidDesc(asset.desc)

----------------------------------------------------------------------------
\* C12: Asset::new validates token, then token_name, then desc and returns
\* the first failure in that order, with no Asset; when all three pass it
\* returns an Asset whose accessors return exactly the five values supplied.
C12_AssetNew ==
    acall.op = "new" =>
        /\ ~ValidToken(acall.token) => acall.res \in TokenErrs
        /\ (ValidToken(acall.token) /\ ~ValidTokenName(acall.token_name)) =>
              acall.res \in TokenNameErrs
        /\ (ValidToken(acall.token) /\ ValidTokenName(acall.token_name)
               /\ ~ValidDesc(acall.desc)) => acall.res \in DescErrs
        /\ (ValidToken(acall.token) /\ ValidTokenName(acall.token_name)
               /\ ValidDesc(acall.desc)) => acall.res = "Ok"
        /\ acall.res # "Ok" => asset = NoAsset
        /\ acall.res = "Ok" =>
              /\ asset # NoAsset
              /\ Asset_token(asset) = acall.token
              /\ Asset_token_name(asset) = acall.token_name
              /\ Asset_chain(asset) = acall.chain
              /\ Asset_precision(asset) = acall.precision
              /\ Asset_desc(asset) = acall.desc

\* Asset::new was given an empty token with an invalid token_name and an
\* invalid desc, and returned the token error and no Asset.
C12_Witness ==
    /\ acall.op = "new"
    /\ acall.token = <<>>
    /\ ~ValidTokenName(acall.token_name)
    /\ ~ValidDesc(acall.desc)
    /\ acall.res = "Token length is zero or too long."
    /\ asset = NoAsset

----------------------------------------------------------------------------
\* C13: is_valid_token accepts a byte string iff its length is in [1, 32]
\* and every byte is a digit, a letter or one of '-', '.', '|', '~'; a
\* length violation is reported with the length message, checked before
\* the charset, and a charset violation with the charset message.
C13_IsValidToken ==
    acall.op = "is_valid_token" =>
        LET v == acall.v
        IN /\ acall.res = "Ok" <=> ValidToken(v)
           /\ Len(v) \notin 1..32 => acall.res = "Token length is zero or too long."
           /\ (Len(v) \in 1..32 /\ \E k \in 1..Len(v) : ~TokenChar(v[k])) =>
                 acall.res = "Token can only use numbers, capital/lowercase letters or '-', '.', '|', '~'."

\* is_valid_token was given 33 bytes, one of them outside the charset, and
\* returned the length message.
C13_Witness ==
    /\ acall.op = "is_valid_token"
    /\ Len(acall.v) = 33
    /\ \E k \in 1..Len(acall.v) : ~TokenChar(acall.v[k])
    /\ acall.res = "Token length is zero or too long."

----------------------------------------------------------------------------
\* C14: is_valid_token_name and is_valid_desc reject every byte string with
\* a byte below 0x20 or above 0x7E; is_valid_token_name accepts exactly the
\* printable-ASCII strings of length 1..32 (empty fails) and is_valid_desc
\* exactly the printable-ASCII strings of length 0..128 (empty succeeds).
C14_PrintableChecks ==
    LET v == acall.v
        unprintable == \E k \in 1..Len(v) : (v[k] < 32 \/ v[k] > 126)
    IN /\ acall.op = "is_valid_token_name" =>
              /\ unprintable => acall.res # "Ok"
              /\ acall.res = "Ok" <=> ValidTokenName(v)
       /\ acall.op = "is_valid_desc" =>
              /\ unprintable => acall.res # "Ok"
              /\ acall.res = "Ok" <=> ValidDesc(v)

\* is_valid_desc has accepted a printable description of exactly 128 bytes.
C14_Witness ==
    /\ acall.op = "is_valid_desc"
    /\ Len(acall.v) = 128
    /\ acall.res = "Ok"

----------------------------------------------------------------------------
\* What holds once control is back with the caller: no token is live, every
\* token that was live when the computation left has had its Drop handler
\* run, and no handler has run twice.
ExitFinalized ==
    pc.at = "returned" =>
        /\ LiveIds = {}
        /\ \A i \in pc.live : tokens[i].by = "scope" /\ tokens[i].applied = 1
        /\ \A i \in Ids : tokens[i].applied <= 1

\* While the computation leaves, each step is the Drop handler of a token
\* that was live when it left and has not been finalized, or the return.
UnwindStep ==
    pc.at = "unwinding" =>
        \/ pc'.at = "returned" /\ tokens' = tokens /\ total' = total
        \/ /\ pc' = pc
           /\ last'.op = "drop"
           /\ last'.self \in pc.live
           /\ tokens[last'.self].applied = 0

\* C15 as stated: when a computation that holds tokens leaves on any path,
\* every token still live is finalized exactly once before control returns,
\* eventually no live token remains, and the conservation invariant holds
\* after it.
C15_ScopeExitConserves ==
    /\ []ExitFinalized
    /\ [][UnwindStep]_vars
    /\ [](pc.at = "returned" => SumSigned(LiveIds) + NetApplied = constructed)
    /\ (pc.at = "unwinding") ~> (pc.at = "returned" /\ LiveIds = {})

\* C15 amended: the same, with conservation for the computations in which
\* no saturating addition or subtraction has clamped its result.
C15_ScopeExitUnlessClamped ==
    /\ []ExitFinalized
    /\ [][UnwindStep]_vars
    /\ []((pc.at = "returned" /\ ~clamped) =>
             SumSigned(LiveIds) + NetApplied = constructed)
    /\ (pc.at = "unwinding") ~> (pc.at = "returned" /\ LiveIds = {})

\* A computation has left on the error path with two tokens live, one of
\* them non-zero, and control is back with the caller, nothing clamped.
C15_Witness ==
    /\ pc.at = "returned" /\ pc.path = "error"
    /\ Cardinality(pc.live) >= 2
    /\ \E i \in pc.live : tokens[i].imb.amount > 0
    /\ ~clamped

----------------------------------------------------------------------------
\* A Balance: an unsigned integer up to the maximum.
Balance == 0..MaxBalance

\* The result of x - y, or of x + y, when it is a Balance.
Exact(x) == x \in Balance

\* C16: no imbalance operation fails, underflows or overflows: split
\* subtracts min(original, amount) from original, offset subtracts the
\* smaller amount from the larger, merge/subsume and both finalizers
\* saturate, so a token can always be destroyed and every TotalAssetBalance
\* entry stays within [0, MAX].
C16_NoFailure ==
    /\ [](\A i \in LiveIds : ENABLED ScopeExit(i))
    /\ [][/\ last'.op = "split" =>
               LET a == last'.was.amount
                   first == tokens'[last'.out[1]].imb.amount
                   second == tokens'[last'.out[2]].imb.amount
               IN /\ first = (IF a <= last'.arg THEN a ELSE last'.arg)
                  /\ Exact(a - first)
                  /\ second = a - first
          /\ last'.op = "offset" =>
               LET a == last'.was.amount
                   b == tokens[last'.other].imb.amount
                   r == tokens'[last'.out[1]].imb.amount
               IN /\ Exact(IF a >= b THEN a - b ELSE b - a)
                  /\ r = (IF a >= b THEN a - b ELSE b - a)
          /\ last'.op \in {"merge", "subsume"} =>
               LET a == last'.was.amount
                   b == tokens[last'.other].imb.amount
                   r == tokens'[last'.self].imb.amount
               IN r = (IF a + b > MaxBalance THEN MaxBalance ELSE a + b)
          /\ last'.op = "drop" =>
               LET tag == TagOf(last'.was)
                   n == last'.was.amount
                   old == TotalAt(total, tag)
               IN TotalAt(total', tag) =
                     (IF last'.was.sign = "Positive"
                      THEN (IF old + n > MaxBalance THEN MaxBalance ELSE old + n)
                      ELSE (IF old < n THEN 0 ELSE old - n))
          /\ \A c \in Cells(total') : total'[c[1]][c[2]] \in Balance
          /\ \A i \in 1..Len(tokens') : tokens'[i].imb.amount \in Balance]_vars

\* A non-zero token made by split has been finalized, and the finalizer
\* has clamped.
C16_Witness ==
    /\ last.op = "drop"
    /\ tokens[last.self].made = "split"
    /\ last.was.amount > 0
    /\ clamped

----------------------------------------------------------------------------
\* A value equal to the one zero() returns.
IsZero(imb) == imb \in {Positive_zero, Negative_zero}

\* Two stores hold the same balances (an absent entry reads as zero).
SameBalances(s1, s2) ==
    \A c \in Symbols \X AssetType : TotalAt(s1, c) = TotalAt(s2, c)

\* C17: zero() returns a token of amount 0 tagged (default asset symbol,
\* Free) that is an identity of merge: for every same-sign token x,
\* merge(x, zero()) and merge(zero(), x) yield a token whose finalization has
\* the same effect on TotalAssetBalance as finalizing x, and finalizing
\* zero() alone leaves every balance unchanged.
C17_ZeroIdentity ==
    /\ last.op = "zero" =>
          LET z == tokens[last.out[1]].imb
          IN z.amount = 0 /\ TagOf(z) = <<TOKEN, "Free">>
    /\ \A i \in LiveIds :
          IsZero(tokens[i].imb) => SameBalances(Drop(total, tokens[i].imb), total)
    /\ last.op = "merge" =>
          LET x == last.was
              y == tokens[last.other].imb
              merged == tokens[last.self].imb
          IN /\ IsZero(y) => SameBalances(Drop(total, merged), Drop(total, x))
             /\ IsZero(x) => SameBalances(Drop(total, merged), Drop(total, y))

----------------------------------------------------------------------------
\* drop_zero of a value of either type returns Ok(()).
DropZeroOk(imb) ==
    IF imb.sign = "Positive" THEN Positive_drop_zero(imb).ok ELSE Negative_drop_zero(imb).ok

\* C18: when self and other have equal amounts, offset returns Ok with a
\* token of self's sign, amount 0 and self's (symbol, bucket), not Err and
\* not the value of zero(); drop_zero on that result returns Ok(()), and its
\* finalization leaves every balance of TotalAssetBalance unchanged.
C18_OffsetTie ==
    (last.op = "offset" /\ last.was.amount = tokens[last.other].imb.amount) =>
        LET r == tokens[last.out[1]].imb
        IN /\ last.ok
           /\ r = [last.was EXCEPT !.amount = 0]
           /\ r.sign = last.was.sign /\ TagOf(r) = TagOf(last.was)
           /\ DropZeroOk(r)
           /\ SameBalances(Drop(total, r), total)

\* A Positive token and a Negative token of one non-zero amount have been
\* offset, self tagged otherwise than zero().
C18_Witness ==
    /\ last.op = "offset" /\ last.ok
    /\ last.was.sign = "Positive"
    /\ last.was.amount > 0
    /\ last.was.amount = tokens[last.other].imb.amount
    /\ TagOf(last.was) # <<TOKEN, "Free">>
    /\ TotalAt(total, TagOf(last.was)) > 0

----------------------------------------------------------------------------
\* C19: merge, subsume and offset never compare tags: the result carries
\* self's (symbol, bucket), also in the Err branch of offset whose token has
\* other's sign, and other's tag is discarded even when it differs from
\* self's; the finalization of the result touches only self's entry.
C19_SelfTag ==
    /\ \A i, j \in LiveIds :
          (i # j /\ tokens[i].imb.sign = tokens[j].imb.sign) =>
              ENABLED Merge(i, j) /\ ENABLED Subsume(i, j)
    /\ \A i, j \in LiveIds :
          (tokens[i].imb.sign # tokens[j].imb.sign /\ Len(tokens) < CallTokens) =>
              ENABLED Offset(i, j, CallTokens)
    /\ last.op \in {"merge", "subsume", "offset"} =>
          LET r == tokens[last.out[1]].imb
              other == tokens[last.other].imb
              tag == TagOf(last.was)
              after == Drop(total, r)
          IN /\ TagOf(r) = tag
             /\ (last.op = "offset" /\ ~last.ok) => r.sign = other.sign
             /\ \A s \in Symbols \ {tag[1]} : after[s] = total[s]
             /\ \A b \in DOMAIN total[tag[1]] \ {tag[2]} :
                   after[tag[1]][b] = total[tag[1]][b]
             /\ DOMAIN after[tag[1]] = DOMAIN total[tag[1]] \cup {tag[2]}

\* offset has returned Err for operands of different tags, other the larger,
\* with a total stored under other's tag.
C19_Witness ==
    /\ last.op = "offset" /\ ~last.ok
    /\ TagOf(tokens[last.other].imb) # TagOf(last.was)
    /\ TagOf(tokens[last.out[1]].imb) = TagOf(last.was)
    /\ TotalAt(total, TagOf(tokens[last.other].imb)) > 0

----------------------------------------------------------------------------
\* offset of either type, called on self.
OffsetOf(self, other) ==
    IF self.sign = "Positive" THEN Positive_offset(self, other)
                              ELSE Negative_offset(self, other)

\* C20: offset is symmetric in signed value: for a common tag,
\* PositiveImbalance(a).offset(NegativeImbalance(b)) and
\* NegativeImbalance(b).offset(PositiveImbalance(a)) produce tokens of the
\* same signed value a - b, Ok of one being Err of the other when a # b, and
\* finalizing either result from the same TotalAssetBalance yields the same
\* store.
C20_OffsetSymmetric ==
    (last.op = "offset" /\ TagOf(last.was) = TagOf(tokens[last.other].imb)) =>
        LET self == last.was
            other == tokens[last.other].imb
            r == tokens[last.out[1]].imb
            rev == OffsetOf(other, self)
            a == IF self.sign = "Positive" THEN self.amount ELSE other.amount
            b == IF self.sign = "Positive" THEN other.amount ELSE self.amount
        IN /\ Signed(r) = a - b
           /\ Signed(rev.ret[1]) = a - b
           /\ a # b => (last.ok # rev.ok)
           /\ Drop(total, r) = Drop(total, rev.ret[1])

\* A Positive token has been offset against a smaller non-zero Negative
\* token of the same tag, with a total stored under it.
C20_Witness ==
    /\ last.op = "offset" /\ last.ok
    /\ last.was.sign = "Positive"
    /\ TagOf(last.was) = TagOf(tokens[last.other].imb)
    /\ last.was.amount > tokens[last.other].imb.amount
    /\ tokens[last.other].imb.amount > 0
    /\ TotalAt(total, TagOf(last.was)) > 0

====
